---- MODULE Spec2Model ----
(***************************************************************************)
(* pacpartial (src/pac.py): a partial mirror of pacman repositories.       *)
(*                                                                         *)
(* Two parts of the program are modelled.                                  *)
(*   - The Mirror: catalogs (Repo) with their package, provides and group  *)
(*     indices, Mirror.resolve_name, the work-queue loop of                *)
(*     Mirror.resolve_deps, Mirror.download and the file-caching download. *)
(*     Specifications Spec and FairSpec.                                   *)
(*   - The record parser alpm_parse and the two Package entry points       *)
(*     parse_desc and parse_deps.  Specification SpecParse.                *)
(***************************************************************************)
EXTENDS Integers, Sequences, FiniteSets, TLC

VARIABLES
    repos,               \* Mirror.repos: repo -> (package name -> Package fields)
    provides,            \* Repo.provides of each repo: name -> list of package names
    groups,              \* Repo.groups of each repo: name -> list of package names
    pc,                  \* position of the script inside Mirror.download
    package_or_group,    \* argument of the running Mirror.download
    optdepends,          \* argument of the running Mirror.download
    packages,            \* Mirror.download's local: the result of resolve_name
    deque_packages,      \* resolve_deps' work queue (deque)
    known_packages,      \* resolve_deps' visited set
    necessary_packages,  \* the tuple resolve_deps returned
    fetch_index,         \* position of Mirror.download's for loop
    files,               \* the local file system: local_path -> content
    error,               \* the exception that ended the script, if any
    lookups,             \* log: the resolve_name calls of the last step
    expansions,          \* log: how often each Package was expanded in this call
    fetcher_calls,       \* log: download() invocations of this Mirror.download
    requests_get,        \* log: calls of requests.get per local_path
    outcome,             \* log: what the last download() did
    pkg,                 \* a Package under construction (its slots)
    entries,             \* the mapping the last alpm_parse returned
    raised,              \* the exception the last parse operation raised
    last_op,             \* the last parse operation applied to pkg
    last_buf,            \* the file given to the last parse operation
    parse_ops            \* the number of parse operations applied to pkg

mirror_vars == <<repos, provides, groups, pc, package_or_group, optdepends, packages, deque_packages,
                 known_packages, necessary_packages, fetch_index, files, error,
                 lookups, expansions, fetcher_calls, requests_get, outcome>>
parse_vars == <<pkg, entries, raised, last_op, last_buf, parse_ops>>
vars == <<mirror_vars, parse_vars>>

(***************************************************************************)
(* Bounds of the model.                                                    *)
(***************************************************************************)
MaxPkgs == 2        \* Packages over all catalogs
MaxRefs == 2        \* names listed in depends/optdepends/provides/groups, over all Packages
MaxExpand == 2      \* cap of the expansions log (the code has no such limit)
MaxLines == 3       \* lines of a desc or depends file
MaxOps == 2         \* parse operations applied to one Package

Repos == {"core", "extra"}
PkgNames == {"a", "b"}
Names == PkgNames           \* a name with no Package is a virtual or a missing name
IndexedFields == {"depends", "optdepends", "provides", "groups"}
NoFile == <<"absent">>
None == "None"
NoError == <<"None", "None">>

Range(s) == {s[i] : i \in 1..Len(s)}
BoundedSeq(S, n) == UNION {[1..k -> S] : k \in 0..n}
Perms(S) == {s \in [1..Cardinality(S) -> S] : \A i, j \in 1..Cardinality(S) : i # j => s[i] # s[j]}

\* A Package object's identity: its catalog and its key in repo.packages.
AllPackages == UNION {{<<r, n>> : n \in DOMAIN repos[r]} : r \in Repos}
Field(p, f) == repos[p[1]][p[2]][f]

(***************************************************************************)
(* Repo.initialize_db: the catalogs the database archives produce.  An     *)
(* archive lists directories (Packages) and their depends files, each      *)
(* field a tuple of bare names.                                            *)
(***************************************************************************)
Slots == Repos \X PkgNames
ArchiveRefs == Slots \X IndexedFields \X Names

FieldFromArchive(refs, slot, f) ==
    LET sel == SelectSeq(refs, LAMBDA e : e[1] = slot /\ e[2] = f)
    IN  [i \in 1..Len(sel) |-> sel[i][3]]

initialize_db(dirs, refs) ==
    [r \in Repos |->
        [n \in {m \in PkgNames : <<r, m>> \in dirs} |->
            [f \in IndexedFields |-> FieldFromArchive(refs, <<r, n>>, f)]]]

\* The iteration order of repo.packages.items().
RECURSIVE SetToSeq(_)
SetToSeq(S) ==
    IF S = {} THEN <<>>
    ELSE LET x == CHOOSE y \in S : \A z \in S : y = z \/ y # z
         IN  <<x>> \o SetToSeq(S \ {x})

\* for name, pkg in self.packages.items(): for g in pkg.<f>: index[g].append(name)
RECURSIVE AppendOccurrences(_, _, _)
AppendOccurrences(values, key, name) ==
    IF values = <<>> THEN <<>>
    ELSE (IF Head(values) = key THEN <<name>> ELSE <<>>)
         \o AppendOccurrences(Tail(values), key, name)

RECURSIVE IndexEntry(_, _, _, _)
IndexEntry(catalog, f, key, names) ==
    IF names = <<>> THEN <<>>
    ELSE AppendOccurrences(catalog[Head(names)][f], key, Head(names))
         \o IndexEntry(catalog, f, key, Tail(names))

BuildIndex(catalog, f) ==
    LET keys == UNION {Range(catalog[n][f]) : n \in DOMAIN catalog}
    IN  [k \in keys |-> IndexEntry(catalog, f, k, SetToSeq(DOMAIN catalog))]

(***************************************************************************)
(* Mirror.resolve_name                                                     *)
(***************************************************************************)
\* The provides-before-packages variant of the if/elif chain.
found_packages_provides_first(r, pkgname) ==
    IF pkgname \in DOMAIN provides[r] THEN provides[r][pkgname]
    ELSE IF pkgname \in DOMAIN repos[r] THEN <<pkgname>>
    ELSE IF pkgname \in DOMAIN groups[r] THEN groups[r][pkgname]
    ELSE <<>>

\* One iteration of the loop over self.repos.values(): the if/elif chain.
found_packages(r, pkgname) ==
    IF pkgname \in DOMAIN repos[r] THEN <<pkgname>>
    ELSE IF pkgname \in DOMAIN provides[r] THEN provides[r][pkgname]
    ELSE IF pkgname \in DOMAIN groups[r] THEN groups[r][pkgname]
    ELSE <<>>

\* The variant that raises whatever `important` says.
resolve_name_always_strict(pkgname, important) ==
    LET found == UNION {{<<r, p>> : p \in Range(found_packages(r, pkgname))} : r \in Repos}
    IN  [name |-> pkgname, important |-> important,
         raised |-> (found = {}), packages |-> found]

resolve_name(pkgname, important) ==
    LET found == UNION {{<<r, p>> : p \in Range(found_packages(r, pkgname))} : r \in Repos}
    IN  [name |-> pkgname, important |-> important,
         raised |-> (found = {} /\ important), packages |-> found]

(***************************************************************************)
(* download: the Fetcher, caching by the existence of local_path.          *)
(***************************************************************************)
\* remote_url and local_path of a Package (Repo.initialize_db, desc branch).
remote_url(p) == <<"server", p[1], p[2]>>
local_path(p) == <<"local", p[1], p[2]>>
LocalPaths == {local_path(s) : s \in Slots}

\* requests.get(remote_path).content: what the server holds at that URL.
content(remote_path) == <<"content of", remote_path>>

\* The variant without the os.path.exists early return.
download_always_fetch(remote_path, path) ==
    \/ /\ files' = [files EXCEPT ![path] = content(remote_path)]
       /\ requests_get' = [requests_get EXCEPT ![path] = @ + 1]
       /\ outcome' = "fetched"
    \/ /\ requests_get' = [requests_get EXCEPT ![path] = @ + 1]
       /\ outcome' = "raised"
       /\ UNCHANGED files

\* requests.get either returns the server's content or raises.
download(remote_path, path) ==
    IF files[path] # NoFile
    THEN outcome' = "cached" /\ UNCHANGED <<files, requests_get>>
    ELSE \/ /\ files' = [files EXCEPT ![path] = content(remote_path)]
            /\ requests_get' = [requests_get EXCEPT ![path] = @ + 1]
            /\ outcome' = "fetched"
         \/ /\ requests_get' = [requests_get EXCEPT ![path] = @ + 1]
            /\ outcome' = "raised"
            /\ UNCHANGED files

(***************************************************************************)
(* Mirror.download and the loop of Mirror.resolve_deps                     *)
(***************************************************************************)
NoExpansions == [s \in Slots |-> 0]

\* An uncaught exception ends the script; the locals of the call are gone.
Raise(exception) ==
    /\ pc' = "raised"
    /\ error' = exception
    /\ packages' = {}
    /\ deque_packages' = <<>>
    /\ known_packages' = {}
    /\ necessary_packages' = <<>>
    /\ fetch_index' = 0

\* Iterating a set appends its elements in an order the program does not fix.
RECURSIVE Orderings(_)
Orderings(sets) ==
    IF sets = <<>> THEN {<<>>}
    ELSE {h \o t : h \in Perms(Head(sets)), t \in Orderings(Tail(sets))}

\* packages = self.resolve_name(package_or_group), then resolve_deps' first lines.
Mirror_download(name, opt) ==
    /\ pc = "idle"
    /\ package_or_group' = name
    /\ optdepends' = opt
    /\ fetcher_calls' = 0
    /\ outcome' = "none"
    /\ expansions' = NoExpansions
    /\ LET res == resolve_name(name, TRUE)
       IN  /\ lookups' = <<res>>
           /\ IF res.raised
              THEN Raise(<<"ValueError", name>>)
              ELSE /\ packages' = res.packages
                   /\ \E order \in Perms(res.packages) : deque_packages' = order
                   /\ known_packages' = {}
                   /\ necessary_packages' = <<>>
                   /\ fetch_index' = 0
                   /\ pc' = "resolve_deps"
                   /\ error' = NoError
    /\ UNCHANGED <<repos, provides, groups, files, requests_get, parse_vars>>

\* The variant without the visited check.
never_known(p) == FALSE

\* if p in known_packages: continue
already_known(p) == p \in known_packages

\* The variant that follows optdepends whatever the flag says.
optdepends_names_always(p) == Field(p, "optdepends")

\* if optdepends: for d_name in chain(p.optdepends)
optdepends_names(p) == IF optdepends THEN Field(p, "optdepends") ELSE <<>>

\* The variant that resolves an optional dependency strictly.
resolve_optdepend_strict(d_name) == resolve_name(d_name, TRUE)

\* self.resolve_name(d_name, important=False)
resolve_optdepend(d_name) == resolve_name(d_name, FALSE)

\* The resolve_name calls of one expansion, in the order the code makes them.
expansion_calls(p) ==
    LET hard == Field(p, "depends")
        soft == optdepends_names(p)
    IN  [i \in 1..Len(hard) |-> resolve_name(hard[i], TRUE)]
        \o [i \in 1..Len(soft) |-> resolve_optdepend(soft[i])]

\* One iteration of `while packages:`.
resolve_deps_iteration ==
    /\ pc = "resolve_deps"
    /\ deque_packages # <<>>
    /\ LET p == Head(deque_packages)
       IN  IF already_known(p)
           THEN /\ deque_packages' = Tail(deque_packages)
                /\ lookups' = <<>>
                /\ UNCHANGED <<pc, error, packages, known_packages, necessary_packages,
                               fetch_index, expansions>>
           ELSE /\ expansions[p] < MaxExpand
                /\ expansions' = [expansions EXCEPT ![p] = @ + 1]
                /\ LET calls == expansion_calls(p)
                       failed == {i \in 1..Len(calls) : calls[i].raised}
                   IN  IF failed # {}
                       THEN LET i == CHOOSE j \in failed : \A k \in failed : j <= k
                            IN  /\ lookups' = SubSeq(calls, 1, i)
                                /\ Raise(<<"ValueError", calls[i].name>>)
                       ELSE /\ lookups' = calls
                            /\ known_packages' = known_packages \cup {p}
                            /\ \E appended \in Orderings([i \in 1..Len(calls) |-> calls[i].packages]) :
                                  deque_packages' = Tail(deque_packages) \o appended
                            /\ UNCHANGED <<pc, error, packages, necessary_packages, fetch_index>>
    /\ UNCHANGED <<repos, provides, groups, package_or_group, optdepends, files, requests_get,
                   fetcher_calls, outcome, parse_vars>>

\* return tuple(known_packages)
resolve_deps_return ==
    /\ pc = "resolve_deps"
    /\ deque_packages = <<>>
    /\ \E order \in Perms(known_packages) : necessary_packages' = order
    /\ fetch_index' = 0
    /\ pc' = "fetch"
    /\ lookups' = <<>>
    /\ UNCHANGED <<repos, provides, groups, package_or_group, optdepends, packages, deque_packages,
                   known_packages, files, error, expansions, fetcher_calls,
                   requests_get, outcome, parse_vars>>

\* The variant that also fetches a Package as soon as the traversal has visited it.
Mirror_download_fetch_lazily ==
    /\ \/ /\ pc = "resolve_deps"
          /\ \E package \in known_packages :
                /\ files[local_path(package)] = NoFile
                /\ download(remote_url(package), local_path(package))
          /\ fetcher_calls' = fetcher_calls + 1
          /\ IF outcome' = "raised"
             THEN Raise(<<"TransportError", "requests.get">>)
             ELSE UNCHANGED <<pc, error, packages, deque_packages, known_packages,
                              necessary_packages, fetch_index>>
       \/ /\ pc = "fetch"
          /\ fetch_index < Len(necessary_packages)
          /\ LET package == necessary_packages[fetch_index + 1]
             IN  download(remote_url(package), local_path(package))
          /\ fetcher_calls' = fetcher_calls + 1
          /\ IF outcome' = "raised"
             THEN Raise(<<"TransportError", "requests.get">>)
             ELSE /\ fetch_index' = fetch_index + 1
                  /\ UNCHANGED <<pc, error, packages, deque_packages, known_packages,
                                 necessary_packages>>
    /\ UNCHANGED <<repos, provides, groups, package_or_group, optdepends, lookups, expansions, parse_vars>>

\* for package in necessary_packages: download(package.remote_url, package.local_path)
Mirror_download_fetch ==
    /\ pc = "fetch"
    /\ fetch_index < Len(necessary_packages)
    /\ LET package == necessary_packages[fetch_index + 1]
       IN  download(remote_url(package), local_path(package))
    /\ fetcher_calls' = fetcher_calls + 1
    /\ IF outcome' = "raised"
       THEN Raise(<<"TransportError", "requests.get">>)
       ELSE /\ fetch_index' = fetch_index + 1
            /\ UNCHANGED <<pc, error, packages, deque_packages, known_packages,
                           necessary_packages>>
    /\ UNCHANGED <<repos, provides, groups, package_or_group, optdepends, lookups, expansions, parse_vars>>

\* Mirror.download returns; the script goes on to its next call.
Mirror_download_return ==
    /\ pc = "fetch"
    /\ fetch_index = Len(necessary_packages)
    /\ pc' = "idle"
    /\ package_or_group' = None
    /\ optdepends' = FALSE
    /\ packages' = {}
    /\ deque_packages' = <<>>
    /\ known_packages' = {}
    /\ necessary_packages' = <<>>
    /\ fetch_index' = 0
    /\ lookups' = <<>>
    /\ expansions' = NoExpansions
    /\ fetcher_calls' = 0
    /\ outcome' = "none"
    /\ UNCHANGED <<repos, provides, groups, files, error, requests_get, parse_vars>>

(***************************************************************************)
(* alpm_parse, Package.__init__, Package.parse_desc, Package.parse_deps    *)
(*                                                                         *)
(* A line is a sequence of characters; a file is a sequence of lines.      *)
(* Field names are strings; values stay sequences of characters.           *)
(***************************************************************************)
Whitespace == {" ", "\n", "\t"}
UpperCase == <<"A", "B", "C", "D", "E", "F", "G", "H", "I", "J", "K", "L", "M",
               "N", "O", "P", "Q", "R", "S", "T", "U", "V", "W", "X", "Y", "Z">>
LowerCase == <<"a", "b", "c", "d", "e", "f", "g", "h", "i", "j", "k", "l", "m",
               "n", "o", "p", "q", "r", "s", "t", "u", "v", "w", "x", "y", "z">>

\* str.strip()
RECURSIVE strip(_)
strip(line) ==
    IF line = <<>> THEN <<>>
    ELSE IF Head(line) \in Whitespace THEN strip(Tail(line))
    ELSE IF line[Len(line)] \in Whitespace THEN strip(SubSeq(line, 1, Len(line) - 1))
    ELSE line

\* str.lower(), the characters joined into the field name.
RECURSIVE lower(_)
lower(chars) ==
    IF chars = <<>> THEN ""
    ELSE LET c == Head(chars)
             at == {i \in 1..Len(UpperCase) : UpperCase[i] = c}
         IN  (IF at = {} THEN c ELSE LowerCase[CHOOSE i \in at : TRUE]) \o lower(Tail(chars))

\* line[0] == '%' and line[-1] == '%'
is_marker(line) == line # <<>> /\ line[1] = "%" /\ line[Len(line)] = "%"

\* entries[last_key] = entries.get(last_key, tuple()) + value; a dict keeps
\* the order in which its keys were first stored.
store(mapping, last_key, line) ==
    IF \E i \in 1..Len(mapping) : mapping[i].key = last_key
    THEN [i \in 1..Len(mapping) |->
             IF mapping[i].key = last_key
             THEN [mapping[i] EXCEPT !.values = Append(@, line)]
             ELSE mapping[i]]
    ELSE Append(mapping, [key |-> last_key, values |-> <<line>>])

RECURSIVE alpm_parse_lines(_, _, _)
alpm_parse_lines(lines, last_key, mapping) ==
    IF lines = <<>> THEN mapping
    ELSE LET line == strip(Head(lines))
         IN  IF line = <<>> THEN alpm_parse_lines(Tail(lines), last_key, mapping)
             ELSE IF is_marker(line)
             THEN alpm_parse_lines(Tail(lines), lower(SubSeq(line, 2, Len(line) - 1)), mapping)
             ELSE alpm_parse_lines(Tail(lines), last_key, store(mapping, last_key, line))

alpm_parse(file) == alpm_parse_lines(file, None, <<>>)

slots == {"filename", "name", "version", "desc", "csize", "isize", "md5sum",
          "sha256sum", "pgpsig", "url", "license", "arch", "builddate", "packager",
          "replaces", "groups", "base", "depends", "makedepends", "checkdepends",
          "optdepends", "conflicts", "provides", "remote_url", "local_path"}

NoneValue == [type |-> "None", val |-> <<>>]
Str(chars) == [type |-> "str", val |-> chars]
Tuple(values) == [type |-> "tuple", val |-> values]

\* Package.__init__(name)
Package(name) ==
    [s \in slots |->
        IF s = "name" THEN Str(name)
        ELSE IF s \in {"groups", "makedepends", "checkdepends", "depends",
                       "optdepends", "conflicts", "provides"} THEN Tuple(<<>>)
        ELSE NoneValue]

\* setattr on a class with __slots__; the result is the object and the exception.
setattr(object, k, v) ==
    IF k = None THEN [pkg |-> object, raised |-> "TypeError"]
    ELSE IF k \notin slots THEN [pkg |-> object, raised |-> "AttributeError"]
    ELSE [pkg |-> [object EXCEPT ![k] = v], raised |-> None]

\* for k, v in alpm_parse(descbuf).items(): ...
RECURSIVE parse_desc(_, _)
parse_desc(object, items) ==
    IF items = <<>> THEN [pkg |-> object, raised |-> None]
    ELSE LET k == Head(items).key
             v == Head(items).values
             set == IF k = "groups" THEN setattr(object, k, Tuple(v))
                    ELSE setattr(object, k, Str(v[1]))
         IN  IF set.raised # None THEN set ELSE parse_desc(set.pkg, Tail(items))

VersionChars == {">", "<", "=", ":"}

\* re.match('[^><=:]+', e): the longest leading run without the four characters.
RECURSIVE bare_prefix(_)
bare_prefix(e) ==
    IF e = <<>> \/ Head(e) \in VersionChars THEN <<>>
    ELSE <<Head(e)>> \o bare_prefix(Tail(e))

\* for k, v in alpm_parse(depsbuf).items(): ...
RECURSIVE parse_deps(_, _)
parse_deps(object, items) ==
    IF items = <<>> THEN [pkg |-> object, raised |-> None]
    ELSE LET k == Head(items).key
             v == Head(items).values
         IN  IF \E i \in 1..Len(v) : bare_prefix(v[i]) = <<>>
             THEN [pkg |-> object, raised |-> "AttributeError"]
             ELSE LET set == setattr(object, k, Tuple([i \in 1..Len(v) |-> bare_prefix(v[i])]))
                  IN  IF set.raised # None THEN set ELSE parse_deps(set.pkg, Tail(items))

\* The lines a database file is made of here.
Lines == {
    <<"%", "D", "E", "P", "E", "N", "D", "S", "%", "\n">>,
    <<"%", "G", "R", "O", "U", "P", "S", "%", "\n">>,
    <<"%", "N", "E", "W", "%", "\n">>,
    <<"g", "l", "i", "b", "c", ">", "=", "2", ".", "3", "0", "\n">>,
    <<"s", "h", "\n">>,
    <<"\n">> }

Files == BoundedSeq(Lines, MaxLines)

\* Repo.initialize_db, filename == 'desc': package.parse_desc(file)
Package_parse_desc(descbuf) ==
    /\ raised = None
    /\ parse_ops < MaxOps
    /\ entries' = alpm_parse(descbuf)
    /\ LET done == parse_desc(pkg, entries')
       IN  pkg' = done.pkg /\ raised' = done.raised
    /\ last_op' = "parse_desc"
    /\ last_buf' = descbuf
    /\ parse_ops' = parse_ops + 1
    /\ UNCHANGED mirror_vars

\* Repo.initialize_db, filename == 'depends': package.parse_deps(file)
Package_parse_deps(depsbuf) ==
    /\ raised = None
    /\ parse_ops < MaxOps
    /\ entries' = alpm_parse(depsbuf)
    /\ LET done == parse_deps(pkg, entries')
       IN  pkg' = done.pkg /\ raised' = done.raised
    /\ last_op' = "parse_deps"
    /\ last_buf' = depsbuf
    /\ parse_ops' = parse_ops + 1
    /\ UNCHANGED mirror_vars

\* self.packages[name] = Package(name): nothing parsed yet.
ParseIdle ==
    /\ pkg = Package(<<"s", "h">>)
    /\ entries = <<>>
    /\ raised = None
    /\ last_op = None
    /\ last_buf = <<>>
    /\ parse_ops = 0

\* Every archive has been read: no Package is under construction.
ParseDone ==
    /\ pkg = <<>>
    /\ entries = <<>>
    /\ raised = None
    /\ last_op = None
    /\ last_buf = <<>>
    /\ parse_ops = 0

\* No Mirror.download has run.
MirrorIdle ==
    /\ pc = "idle"
    /\ package_or_group = None
    /\ optdepends = FALSE
    /\ packages = {}
    /\ deque_packages = <<>>
    /\ known_packages = {}
    /\ necessary_packages = <<>>
    /\ fetch_index = 0
    /\ files = [l \in LocalPaths |-> NoFile]
    /\ error = NoError
    /\ lookups = <<>>
    /\ expansions = NoExpansions
    /\ fetcher_calls = 0
    /\ requests_get = [l \in LocalPaths |-> 0]
    /\ outcome = "none"

\* m = Mirror(): every catalog built, nothing resolved or fetched yet.
Init ==
    /\ \E dirs \in SUBSET Slots, refs \in BoundedSeq(ArchiveRefs, MaxRefs) :
          /\ Cardinality(dirs) <= MaxPkgs
          /\ \A i \in 1..Len(refs) : refs[i][1] \in dirs
          /\ repos = initialize_db(dirs, refs)
    /\ provides = [r \in Repos |-> BuildIndex(repos[r], "provides")]
    /\ groups = [r \in Repos |-> BuildIndex(repos[r], "groups")]
    /\ MirrorIdle
    /\ ParseDone

Next ==
    \/ \E name \in Names, opt \in BOOLEAN : Mirror_download(name, opt)
    \/ resolve_deps_iteration
    \/ resolve_deps_return
    \/ Mirror_download_fetch
    \/ Mirror_download_return

Spec == Init /\ [][Next]_vars

\* The script is one thread: a call that has started runs until it returns or raises.
Running ==
    \/ resolve_deps_iteration
    \/ resolve_deps_return
    \/ Mirror_download_fetch
    \/ Mirror_download_return

FairSpec == Spec /\ WF_vars(Running)

\* One Package of a catalog under construction, fed by the two kinds of file.
InitParse ==
    /\ repos = initialize_db({}, <<>>)
    /\ provides = [r \in Repos |-> BuildIndex(repos[r], "provides")]
    /\ groups = [r \in Repos |-> BuildIndex(repos[r], "groups")]
    /\ MirrorIdle
    /\ ParseIdle

NextParse ==
    \/ \E descbuf \in Files : Package_parse_desc(descbuf)
    \/ \E depsbuf \in Files : Package_parse_deps(depsbuf)

SpecParse == InitParse /\ [][NextParse]_vars

(***************************************************************************)
(* What the claims speak of, stated over the catalogs themselves.          *)
(***************************************************************************)
Lists(r, f, name) == {n \in DOMAIN repos[r] : name \in Range(repos[r][n][f])}

CatalogMatch(r, name) ==
    IF name \in DOMAIN repos[r] THEN {<<r, name>>}
    ELSE IF Lists(r, "provides", name) # {} THEN {<<r, n>> : n \in Lists(r, "provides", name)}
    ELSE {<<r, n>> : n \in Lists(r, "groups", name)}

ExpectedMatches(name) == UNION {CatalogMatch(r, name) : r \in Repos}

EdgeNames(p, opt) ==
    Range(Field(p, "depends")) \cup (IF opt THEN Range(Field(p, "optdepends")) ELSE {})

RECURSIVE Closure(_, _)
Closure(S, opt) ==
    LET T == S \cup UNION {ExpectedMatches(n) : n \in UNION {EdgeNames(p, opt) : p \in S}}
    IN  IF T = S THEN S ELSE Closure(T, opt)

Returned == pc = "fetch"
Result == Range(necessary_packages)

CycleCatalog(r) ==
    /\ AllPackages = {<<r, "a">>, <<r, "b">>}
    /\ Field(<<r, "a">>, "depends") = <<"b">>
    /\ Field(<<r, "b">>, "depends") = <<"a">>

\* C2: resolve_deps terminates (returns or raises); no Package is expanded
\* twice in one call; on the catalog where a depends on b and b on a, seeded
\* with a, it returns exactly {a, b}.
C2_Terminates ==
    /\ [](\A s \in Slots : expansions[s] <= 1)
    /\ [](\A r \in Repos :
            (Returned /\ CycleCatalog(r) /\ packages = {<<r, "a">>})
                => Result = {<<r, "a">>, <<r, "b">>})
    /\ (pc = "resolve_deps") ~> (pc \in {"fetch", "raised"})

\* The two-Package cycle, seeded with a, has returned.
C2_Witness ==
    /\ Returned
    /\ \E r \in Repos : CycleCatalog(r) /\ packages = {<<r, "a">>}
    /\ \A p \in AllPackages : expansions[p] = 1

\* C3: resolve_name returns the union over all catalogs of each catalog's
\* match: the literal Package, else the Packages that provide the name, else
\* the Packages of the group of that name.
C3_ResolveNameUnion ==
    \A i \in 1..Len(lookups) :
        ~lookups[i].raised => lookups[i].packages = ExpectedMatches(lookups[i].name)

\* A name that is a literal Package of a catalog and provided by another
\* Package of the same catalog has been resolved.
C3_Witness ==
    \E i \in 1..Len(lookups) : \E r \in Repos :
        /\ lookups[i].name \in DOMAIN repos[r]
        /\ Lists(r, "provides", lookups[i].name) \ {lookups[i].name} # {}
        /\ ~lookups[i].raised

\* C4: resolve_name raises, naming the identifier, exactly when no catalog
\* matches and important is true; with important false it returns the empty set.
C4_NotFound ==
    \A i \in 1..Len(lookups) :
        /\ lookups[i].raised <=> (ExpectedMatches(lookups[i].name) = {} /\ lookups[i].important)
        /\ lookups[i].raised =>
              /\ i = Len(lookups)
              /\ pc = "raised"
              /\ error = <<"ValueError", lookups[i].name>>
        /\ (ExpectedMatches(lookups[i].name) = {} /\ ~lookups[i].important) =>
              lookups[i].packages = {}

\* A hard dependency that no catalog matches has raised.
C4_Witness ==
    /\ pc = "raised"
    /\ Len(lookups) >= 1
    /\ lookups[Len(lookups)].raised
    /\ lookups[Len(lookups)].name # package_or_group

ResolutionFailed == pc = "raised" /\ error[1] = "ValueError"

\* C5: within one Mirror.download the Fetcher is not invoked before name
\* resolution and the closure are complete, and not at all when resolution fails.
C5_FetchAfterResolution ==
    /\ pc = "resolve_deps" => fetcher_calls = 0
    /\ ResolutionFailed => fetcher_calls = 0
    /\ fetcher_calls > 0 /\ pc = "fetch" =>
          /\ deque_packages = <<>>
          /\ Result = Closure(packages, optdepends)

\* Resolution failed at a hard dependency after Packages had been visited.
C5_Witness ==
    /\ ResolutionFailed
    /\ error[2] # package_or_group
    /\ \E p \in AllPackages : expansions[p] = 1

\* C6: with optdepends set, a name of optdepends that nothing matches does not
\* make resolve_deps fail: every failure names the seed or a hard dependency.
C6_OptionalTolerated ==
    /\ ResolutionFailed =>
          /\ ExpectedMatches(error[2]) = {}
          /\ \/ error[2] = package_or_group
             \/ \E p \in Closure(ExpectedMatches(package_or_group), optdepends) :
                   error[2] \in Range(Field(p, "depends"))
    /\ Returned => \A p \in Result : ExpectedMatches(p[2]) # {}

\* A call with the flag set has returned although a visited Package lists an
\* optional dependency that nothing matches.
C6_Witness ==
    /\ Returned
    /\ optdepends
    /\ \E p \in Result : \E n \in Range(Field(p, "optdepends")) : ExpectedMatches(n) = {}

\* C7: once local_path holds content, no later download requests it from the
\* network or changes it; so requests.get is called at most once per local_path.
C7_FetchOnce ==
    [][\A l \in LocalPaths :
          /\ files[l] # NoFile => (files'[l] = files[l] /\ requests_get'[l] = requests_get[l])
          /\ requests_get'[l] <= 1]_vars

\* A later Mirror.download met a file an earlier one had stored.
C7_Witness ==
    /\ outcome = "cached"
    /\ \E p \in Result : requests_get[local_path(p)] = 1

DependencyFields == {"depends", "makedepends", "checkdepends", "optdepends",
                     "conflicts", "provides"}

\* C8: after any sequence of parse_desc and parse_deps, every dependency-kind
\* field of the Package is a sequence of bare names: no element holds any of
\* the characters < > = :
C8_DependencyFieldsBare ==
    \A f \in DependencyFields :
        /\ pkg[f].type = "tuple"
        /\ \A i \in 1..Len(pkg[f].val) : \A j \in 1..Len(pkg[f].val[i]) :
              pkg[f].val[i][j] \notin VersionChars

ValueBeforeMarker(file) ==
    \E i \in 1..Len(file) :
        /\ strip(file[i]) # <<>>
        /\ \A j \in 1..i : ~is_marker(strip(file[j]))

\* C9: alpm_parse rejects an input with a value line before the first marker:
\* the operation raises, and no value is stored under a null field.
C9_ValueBeforeMarkerRejected ==
    (last_op # None /\ ValueBeforeMarker(last_buf)) =>
        /\ raised # None
        /\ \A i \in 1..Len(entries) : entries[i].key # None

Keys(mapping) == {mapping[i].key : i \in 1..Len(mapping)}
ValuesOf(mapping, k) == mapping[CHOOSE i \in 1..Len(mapping) : mapping[i].key = k].values

\* C10: parse_desc ignores a parsed field that is no attribute of Package: it
\* raises nothing, applies every known field of the record, and leaves every
\* other attribute as it was.
C10_UnknownFieldIgnored ==
    [][(/\ last_op' = "parse_desc"
        /\ parse_ops' = parse_ops + 1
        /\ None \notin Keys(entries')
        /\ Keys(entries') \ slots # {})
       => /\ raised' = None
          /\ \A s \in slots :
                pkg'[s] = IF s \in Keys(entries')
                          THEN (IF s = "groups" THEN Tuple(ValuesOf(entries', s))
                                ELSE Str(ValuesOf(entries', s)[1]))
                          ELSE pkg[s]]_vars

====
